---------------------------- MODULE Spec2Model ----------------------------
(***************************************************************************)
(* A model of the resource-cache Zone of litert/rache.js                   *)
(* (src/unnamed/part_000, the ResourceZone class), of the driver contract  *)
(* it consumes (src/unnamed/part_001, IDriver) and of the sample in-memory *)
(* driver it is run against (src/src/samples/local.ts, LocalDriver).       *)
(*                                                                         *)
(* JavaScript values are records tagged by t: null, undefined, a Buffer    *)
(* (its text in s), a boolean (b), a number (n), an array (a), a cached    *)
(* resource object (v) and a rejected promise.                             *)
(***************************************************************************)
EXTENDS Integers, Sequences, FiniteSets, TLC

VARIABLES
    entries,      \* ResourceZone._entries, in insertion order
    attachments,  \* ResourceZone._attachments, in insertion order
    store,        \* LocalDriver._data: key -> Item
    usable,       \* LocalDriver._usable
    now,          \* Date.now(), in milliseconds
    handlers,     \* number of listeners of the zone's "error" event
    last,         \* the operation that completed last, and its outcome
    factory,      \* Factory._drivers, Factory._zones and the last call's outcome
    puts          \* the put calls under way: their set calls in flight

vars ==
    <<entries, attachments, store, usable, now, handlers, last, factory, puts>>

-----------------------------------------------------------------------------
(* Bounds of the model. *)

MaxBatch == 2      \* longest batch handed to a ...Multi operation
MaxHandlers == 1   \* most listeners subscribed at once
MaxPuts == 2       \* most put calls under way at once
MaxTicks == 3      \* the clock advances at most this many times
TickSeconds == 450 \* by this many seconds at a time

(* Program constants. *)

DEFAULT_NEVER_EXISTED_TTL == 900
DEFAULT_TTL == 0
MsPerSecond == 1000

ZoneName == "users"

-----------------------------------------------------------------------------
(* JavaScript values. *)

Null == [t |-> "null"]
Undefined == [t |-> "undefined"]
Buf(s) == [t |-> "buffer", s |-> s]
Bool(b) == [t |-> "boolean", b |-> b]
Number(n) == [t |-> "number", n |-> n]
Array(a) == [t |-> "array", a |-> a]
Value(v) == [t |-> "value", v |-> v]
Rejected == [t |-> "rejected"]

(* The resource objects callers hand to the zone (the sample's User), and *)
(* the attachment data (the sample writes the number 0 as a wallet).       *)
Mail(i) == "m" \o ToString(i)
User(i) == [id |-> i, email |-> Mail(i)]
Users == {User(1), User(2)}

(* Two versions of the resource object of one identity: they differ in a   *)
(* field no entry declares.                                                *)
Version(u, nick) == [id |-> u.id, email |-> u.email, nick |-> nick]
Versions == {Version(User(1), "a"), Version(User(1), "b")}
Num(n) == [num |-> n]
AttachData == {Num(0)}

(* The value undefined handed in as data: JSON.stringify(undefined) is     *)
(* undefined, no text.                                                     *)
NoData == [undef |-> TRUE]

IsNum(d) == "num" \in DOMAIN d

(* The resource object the callers of this zone cache. *)
Login(roles, email, name) == [roles |-> roles, email |-> email, name |-> name]

DataR == {Login("roles", "a", "b")}

(* JSON.stringify, the serializer the sample gives the zone and its        *)
(* attachments.                                                            *)
JSONStringify(d) ==
    IF IsNum(d)
    THEN ToString(d.num)
    ELSE IF "roles" \in DOMAIN d
    THEN "{\"roles\":\"" \o d.roles \o "\",\"email\":\"" \o d.email
             \o "\",\"name\":\"" \o d.name \o "\"}"
    ELSE "{\"id\":" \o ToString(d.id) \o ",\"email\":\"" \o d.email \o "\""
             \o (IF "nick" \in DOMAIN d
                 THEN ",\"nick\":\"" \o d.nick \o "\"}"
                 ELSE "}")

JSONValues == Users \cup Versions \cup AttachData \cup DataR

(* JSON.parse, the unserializer of the sample: the value whose JSON text   *)
(* is s, and a SyntaxError for any other text.                             *)
JSONParse(s) ==
    IF \E d \in JSONValues : JSONStringify(d) = s
    THEN [ok |-> TRUE, v |-> CHOOSE d \in JSONValues : JSONStringify(d) = s]
    ELSE [ok |-> FALSE]

-----------------------------------------------------------------------------
(* The key compiler. *)

(* An identity schema is a sequence of <<field name, declared kind>>, in   *)
(* declared order.                                                         *)
Field(f, kind) == [f |-> f, kind |-> kind]

(* String(ids.f): the text a template literal renders for field f.  The    *)
(* resource objects of the model hold a number in id and text elsewhere.   *)
FieldText(ids, f) ==
    IF f \notin DOMAIN ids THEN "undefined"
    ELSE IF f = "id" THEN ToString(ids[f]) ELSE ids[f]

Truthy(ids, f) ==
    /\ f \in DOMAIN ids
    /\ IF f = "id" THEN ids[f] # 0 ELSE ids[f] # ""

(* ids.f.toString("base64") where ids.f is no Buffer: a TypeError when the *)
(* field is missing, a RangeError for a number (the radix), the text       *)
(* itself for a string.                                                    *)
BufferTextThrows(ids, f) == f \notin DOMAIN ids \/ f = "id"

Segment(ids, fld) ==
    CASE fld.kind \in {"string", "number"} -> <<fld.f, FieldText(ids, fld.f)>>
      [] fld.kind = "buffer" -> <<fld.f, FieldText(ids, fld.f)>>
      [] fld.kind = "boolean" ->
            <<fld.f, IF Truthy(ids, fld.f) THEN "true" ELSE "false">>
      [] OTHER -> <<fld.f>>

RECURSIVE Join(_)
Join(segs) ==
    IF Len(segs) = 0 THEN ""
    ELSE IF Len(segs) = 1 THEN segs[1]
    ELSE segs[1] \o ":" \o Join(Tail(segs))

RECURSIVE FieldSegs(_, _)
FieldSegs(keys, ids) ==
    IF keys = <<>> THEN <<>>
    ELSE Segment(ids, Head(keys)) \o FieldSegs(Tail(keys), ids)

(* for (let keyName in identities): JavaScript enumerates the property     *)
(* names that are array indices first, in ascending numeric order, and the *)
(* other names after them in the order they were declared.                 *)
IndexNames == <<"0", "1", "2", "3", "4", "5", "6", "7", "8", "9">>

IsIndex(f) == \E n \in 1..Len(IndexNames) : IndexNames[n] = f

IndexOf(f) == (CHOOSE n \in 1..Len(IndexNames) : IndexNames[n] = f) - 1

IndexField(fld) == IsIndex(fld.f)

NamedField(fld) == ~IsIndex(fld.f)

IndexBefore(a, b) == IndexOf(a.f) < IndexOf(b.f)

ForIn(keys) ==
    SortSeq(SelectSeq(keys, IndexField), IndexBefore)
        \o SelectSeq(keys, NamedField)

(* new Function("ids", ...) of a template that holds ${ids.<keyName>}: a   *)
(* SyntaxError when keyName is no identifier name, as an array index is    *)
(* not.  The kinds outside the switch render no expression.                *)
CompileThrows(keys) ==
    \E n \in 1..Len(keys) :
        /\ keys[n].kind \in {"string", "number", "buffer", "boolean"}
        /\ IsIndex(keys[n].f)

(* The values of the fields alone, for a key builder that leaves the field *)
(* names out.                                                              *)
RECURSIVE ValueSegs(_, _)
ValueSegs(keys, ids) ==
    IF keys = <<>> THEN <<>>
    ELSE Tail(Segment(ids, Head(keys))) \o ValueSegs(Tail(keys), ids)

compileCacheKeyBuilder_NoNames(resource, entryName, keys, attachment, ids) ==
    LET head == IF attachment # ""
                THEN <<resource, "attach", attachment, entryName>>
                ELSE <<resource, entryName>>
    IN  IF \E i \in 1..Len(keys) :
              keys[i].kind = "buffer" /\ BufferTextThrows(ids, keys[i].f)
        THEN [ok |-> FALSE, key |-> ""]
        ELSE [ok |-> TRUE, key |-> Join(head \o ValueSegs(ForIn(keys), ids))]

(* compileCacheKeyBuilder(resource, entryName, identities, attachment)     *)
(* applied to ids: the key, or the exception the built function throws.    *)
compileCacheKeyBuilder(resource, entryName, keys, attachment, ids) ==
    LET head == IF attachment # ""
                THEN <<resource, "attach", attachment, entryName>>
                ELSE <<resource, entryName>>
    IN  IF \E i \in 1..Len(keys) :
              keys[i].kind = "buffer" /\ BufferTextThrows(ids, keys[i].f)
        THEN [ok |-> FALSE, key |-> ""]
        ELSE [ok |-> TRUE, key |-> Join(head \o FieldSegs(ForIn(keys), ids))]

(* new Entry(resource, name, keys, ttl, neTTL, attachment?) *)
Entry(name, keys, ttl, neTTL, attachment) ==
    [name |-> name, keys |-> keys, ttl |-> ttl, neTTL |-> neTTL,
     attachment |-> attachment]

(* new Attachment(resource, name, keys, ttl, neTTL, ...): an Entry whose   *)
(* attachment name is its own name.                                        *)
Attachment(name, keys, ttl, neTTL) == Entry(name, keys, ttl, neTTL, name)

(* entry.buildKey(ids) *)
buildKey(e, ids) ==
    compileCacheKeyBuilder(ZoneName, e.name, e.keys, e.attachment, ids)

-----------------------------------------------------------------------------
(* The sample driver, LocalDriver, and its cache items. *)

(* new Item(data, ttl) *)
Item(data, ttl) ==
    [data |-> data,
     expiredAt |-> IF ttl > 0 THEN now + MsPerSecond * ttl ELSE 0]

(* Item.isExpired() of an item that is kept whatever its time to live. *)
isExpired_Never(item) == FALSE

(* Item.isExpired() *)
isExpired(item) == item.expiredAt > 0 /\ item.expiredAt < now

(* Item.data: the Buffer, or null once expired *)
ItemData(item) == IF isExpired(item) THEN Null ELSE Buf(item.data)

(* (this._data[key] && this._data[key].data) || null *)
Lookup(st, key) == IF key \in DOMAIN st THEN ItemData(st[key]) ELSE Null

(* LocalDriver.get without the test of the empty body: a marker is         *)
(* answered like a record that is not held.                                *)
DriverGet_NoMarker(st, key) ==
    LET result == Lookup(st, key)
    IN  IF result = Null \/ Len(result.s) = 0 THEN Null ELSE result

(* LocalDriver.get *)
DriverGet(st, key) ==
    LET result == Lookup(st, key)
    IN  IF result = Null THEN Null
        ELSE IF Len(result.s) = 0 THEN Undefined
        ELSE result

(* LocalDriver.exists: the marker test is length 1 and first byte 48, the  *)
(* text "0".                                                               *)
DriverExists(st, key) ==
    LET result == Lookup(st, key)
    IN  IF result = Null THEN Bool(FALSE)
        ELSE IF result.s = "0" THEN Undefined
        ELSE Bool(TRUE)

(* LocalDriver.getMulti without the test of the empty body. *)
DriverGetMulti_NoMarker(st, keys) ==
    [k \in {keys[i] : i \in 1..Len(keys)} |-> DriverGet_NoMarker(st, k)]

(* LocalDriver.getMulti: the dictionary key -> result *)
DriverGetMulti(st, keys) ==
    [k \in {keys[i] : i \in 1..Len(keys)} |-> DriverGet(st, k)]

(* LocalDriver.set: an undefined body is stored as the empty text *)
DriverSet(st, key, body, ttl) ==
    LET item == IF body = Undefined THEN Item("", ttl) ELSE Item(body.s, ttl)
    IN  [k \in DOMAIN st \cup {key} |-> IF k = key THEN item ELSE st[k]]

(* LocalDriver.setMulti: caches is the dictionary key -> body *)
DriverSetMulti(st, caches, ttl) ==
    [k \in DOMAIN st \cup DOMAIN caches |->
        IF k \in DOMAIN caches
        THEN IF caches[k] = Undefined THEN Item("", ttl)
             ELSE Item(caches[k].s, ttl)
        ELSE st[k]]

(* LocalDriver.remove *)
DriverRemove(st, key) == [k \in DOMAIN st \ {key} |-> st[k]]

(* LocalDriver.removeMulti: the records deleted, and how many. A key is    *)
(* counted when this._data holds it, expired or not, and once.             *)
DriverRemoveMulti(st, keys) ==
    LET ks == {keys[i] : i \in 1..Len(keys)}
    IN  [n |-> Cardinality(ks \cap DOMAIN st),
         st |-> [k \in DOMAIN st \ ks |-> st[k]]]

-----------------------------------------------------------------------------
(* The registries. *)

(* The names every object literal inherits with a truthy value: for these  *)
(* !!this._entries[name] is true although nothing was registered.          *)
ProtoNames == {"constructor"}

Names(reg) == {reg[i].name : i \in 1..Len(reg)}

IsOwn(reg, name) == name \in Names(reg)

(* !!registry[name] *)
Has(reg, name) == IsOwn(reg, name) \/ name \in ProtoNames

(* registry[name], for a registered name *)
Get(reg, name) == reg[CHOOSE i \in 1..Len(reg) : reg[i].name = name]

(* _assertCacheUsable: whether it throws *)
_assertCacheUsable == ~usable

(* _assertEntry as it would be without the branch that rejects a name     *)
(* that exists.                                                            *)
_assertEntry_MissingOnly(name, exists) == exists /\ ~Has(entries, name)

(* _assertEntry(name, exists): whether it throws *)
_assertEntry(name, exists) == exists # Has(entries, name)

(* _assertAttachment(name, exists): whether it throws *)
_assertAttachment(name, exists) == exists # Has(attachments, name)

-----------------------------------------------------------------------------
(* How an operation ends. *)

(* A driver call the operation issued. *)
Call(m) == [m |-> m]
CallT(m, ttl) == [m |-> m, ttl |-> ttl]

(* The operation returned ret. *)
Returned(ret, calls, st) ==
    [ret |-> ret, raised |-> FALSE, emits |-> 0, calls |-> calls, st |-> st]

(* The catch block ran: this.emit("error", e), then return dflt.  With no  *)
(* listener of "error" an EventEmitter throws e instead, out of the catch  *)
(* block: the operation's promise rejects.                                 *)
Caught(dflt, calls, st) ==
    [ret |-> IF handlers = 0 THEN Rejected ELSE dflt,
     raised |-> handlers = 0, emits |-> 1, calls |-> calls, st |-> st]

(* The operation returned the driver's promise without awaiting it and the *)
(* promise rejected: the try block is left by then, the rejection is the   *)
(* operation's.                                                            *)
Escaped(calls, st) ==
    [ret |-> Rejected, raised |-> TRUE, emits |-> 0, calls |-> calls,
     st |-> st]

(* return this._driver.m(...): the end of an operation whose last          *)
(* statement returns the promise of driver call c; f is what the driver    *)
(* does (ok, resolve to its failure value, throw, reject).                 *)
ReturnCall(st, f, ok, failure, dflt, c, st1) ==
    CASE f = "ok" -> Returned(ok, <<c>>, st1)
      [] f = "false" -> Returned(failure, <<c>>, st)
      [] f = "throw" -> Caught(dflt, <<c>>, st)
      [] f = "reject" -> Escaped(<<c>>, st)

-----------------------------------------------------------------------------
(* The zone's operations on one entry.  Each operator is the outcome of    *)
(* the whole method: what it returns, whether it raises, how often it      *)
(* emits "error", the driver calls it issues, and the store afterwards. *)
(* f is what the driver does with the call, uf whether the unserializer    *)
(* the zone was built with throws on the payload.                          *)

(* An optional argument: <<>> when omitted, <<x>> when given. *)
None == <<>>
Some(x) == <<x>>

(* this._entries[entry].buildKey(ids); calling the buildKey of an          *)
(* inherited property is a TypeError.                                      *)
KeyOf(reg, name, ids) ==
    IF IsOwn(reg, name) THEN buildKey(Get(reg, name), ids)
    ELSE [ok |-> FALSE, key |-> ""]

(* this._serialize(data) and this._unserialize(payload) *)
serialize(data) ==
    IF data = NoData THEN Undefined ELSE Buf(JSONStringify(data))
unserialize(payload, uf) == IF uf THEN [ok |-> FALSE] ELSE JSONParse(payload)

(* What read and readAttachment make of the driver's answer. *)
ReadResult(st, ret, uf, calls) ==
    IF ret = Null \/ ret = Undefined THEN Returned(ret, calls, st)
    ELSE LET u == unserialize(ret.s, uf)
         IN  IF u.ok THEN Returned(Value(u.v), calls, st)
             ELSE Caught(Null, calls, st)

read(st, entry, identity, f, uf) ==
    IF _assertCacheUsable \/ _assertEntry(entry, TRUE)
    THEN Caught(Null, <<>>, st)
    ELSE LET k == KeyOf(entries, entry, identity)
         IN  IF ~k.ok THEN Caught(Null, <<>>, st)
             ELSE IF f # "ok" THEN Caught(Null, <<Call("get")>>, st)
             ELSE ReadResult(st, DriverGet(st, k.key), uf, <<Call("get")>>)

(* write as it would be with `ttl || theEntry.ttl`: an explicit 0 falls    *)
(* back to the entry's ttl.                                                *)
write_ZeroIsDefault(st, entry, data, identity, ttl, f) ==
    IF _assertCacheUsable \/ _assertEntry(entry, TRUE)
    THEN Caught(Bool(FALSE), <<>>, st)
    ELSE LET k == KeyOf(entries, entry,
                        IF identity = None THEN data ELSE identity[1])
         IN  IF ~k.ok THEN Caught(Bool(FALSE), <<>>, st)
             ELSE LET t == IF ttl = None \/ ttl = Some(0)
                           THEN Get(entries, entry).ttl
                           ELSE ttl[1]
                  IN  ReturnCall(st, f, Bool(TRUE), Bool(FALSE), Bool(FALSE),
                                 CallT("set", t),
                                 DriverSet(st, k.key, serialize(data), t))

write(st, entry, data, identity, ttl, f) ==
    IF _assertCacheUsable \/ _assertEntry(entry, TRUE)
    THEN Caught(Bool(FALSE), <<>>, st)
    ELSE LET k == KeyOf(entries, entry,
                        IF identity = None THEN data ELSE identity[1])
         IN  IF ~k.ok THEN Caught(Bool(FALSE), <<>>, st)
             ELSE LET t == IF ttl = None THEN Get(entries, entry).ttl
                           ELSE ttl[1]
                  IN  ReturnCall(st, f, Bool(TRUE), Bool(FALSE), Bool(FALSE),
                                 CallT("set", t),
                                 DriverSet(st, k.key, serialize(data), t))

markNeverExist(st, entry, identity, f) ==
    IF _assertCacheUsable \/ _assertEntry(entry, TRUE)
    THEN Caught(Bool(FALSE), <<>>, st)
    ELSE LET k == KeyOf(entries, entry, identity)
         IN  IF ~k.ok THEN Caught(Bool(FALSE), <<>>, st)
             ELSE LET t == Get(entries, entry).neTTL
                  IN  ReturnCall(st, f, Bool(TRUE), Bool(FALSE), Bool(FALSE),
                                 CallT("set", t),
                                 DriverSet(st, k.key, Undefined, t))

exists(st, entry, identity, f) ==
    IF _assertCacheUsable \/ _assertEntry(entry, TRUE)
    THEN Caught(Bool(FALSE), <<>>, st)
    ELSE LET k == KeyOf(entries, entry, identity)
         IN  IF ~k.ok THEN Caught(Bool(FALSE), <<>>, st)
             ELSE ReturnCall(st, f, DriverExists(st, k.key), Bool(FALSE),
                             Bool(FALSE), Call("exists"), st)

(* remove as it would be if it answered whether the key was held. *)
remove_ReportsHeld(st, entry, identity, f) ==
    IF _assertCacheUsable \/ _assertEntry(entry, TRUE)
    THEN Caught(Bool(FALSE), <<>>, st)
    ELSE LET k == KeyOf(entries, entry, identity)
         IN  IF ~k.ok THEN Caught(Bool(FALSE), <<>>, st)
             ELSE ReturnCall(st, f, Bool(k.key \in DOMAIN st), Bool(FALSE),
                             Bool(FALSE), Call("remove"),
                             DriverRemove(st, k.key))

remove(st, entry, identity, f) ==
    IF _assertCacheUsable \/ _assertEntry(entry, TRUE)
    THEN Caught(Bool(FALSE), <<>>, st)
    ELSE LET k == KeyOf(entries, entry, identity)
         IN  IF ~k.ok THEN Caught(Bool(FALSE), <<>>, st)
             ELSE ReturnCall(st, f, Bool(TRUE), Bool(FALSE), Bool(FALSE),
                             Call("remove"), DriverRemove(st, k.key))

-----------------------------------------------------------------------------
(* The zone's batch operations. *)

(* The keys a loop over identities builds, each the key or the exception. *)
BuildKeys(reg, name, ids) == [i \in 1..Len(ids) |-> KeyOf(reg, name, ids[i])]

AllBuilt(ks) == \A i \in 1..Len(ks) : ks[i].ok

KeysOf(ks) == [i \in 1..Len(ks) |-> ks[i].key]

(* identities.map((x) => null) *)
Nulls(ids) == Array([i \in 1..Len(ids) |-> Null])

(* The dictionary the loop caches[keys[i]] = bodies[i] leaves: for a key   *)
(* built twice the later body.                                             *)
Caches(keys, bodies) ==
    [k \in {keys[i] : i \in 1..Len(keys)} |->
        bodies[CHOOSE i \in 1..Len(keys) :
                  keys[i] = k /\ \A j \in (i + 1)..Len(keys) : keys[j] # k]]

(* uf is the position of the item on which the unserializer throws, 0 if   *)
(* it never does.                                                          *)
readMulti(st, entry, identities, f, uf) ==
    IF _assertCacheUsable \/ _assertEntry(entry, TRUE)
    THEN Caught(Nulls(identities), <<>>, st)
    ELSE LET ks == BuildKeys(entries, entry, identities)
             cacheKeys == KeysOf(ks)
             result == DriverGetMulti(st, cacheKeys)
             item(i) == result[cacheKeys[i]]
             plain(i) == item(i) = Null \/ item(i) = Undefined
             parsed(i) == unserialize(item(i).s, uf = i)
         IN  IF ~AllBuilt(ks) THEN Caught(Nulls(identities), <<>>, st)
             ELSE IF f # "ok"
             THEN Caught(Nulls(identities), <<Call("getMulti")>>, st)
             ELSE IF \E i \in 1..Len(ks) : ~plain(i) /\ ~parsed(i).ok
             THEN Caught(Nulls(identities), <<Call("getMulti")>>, st)
             ELSE Returned(Array([i \in 1..Len(ks) |->
                                     IF plain(i) THEN item(i)
                                     ELSE Value(parsed(i).v)]),
                           <<Call("getMulti")>>, st)

(* The ttl of the entry, and the setMulti call made with it; the inherited *)
(* property that passes _assertEntry has no ttl.                           *)
SetMultiCall(name, t) ==
    IF IsOwn(entries, name) THEN CallT("setMulti", t) ELSE Call("setMulti")

TtlOf(name) == IF IsOwn(entries, name) THEN Get(entries, name).ttl ELSE 0

NeTtlOf(name) == IF IsOwn(entries, name) THEN Get(entries, name).neTTL ELSE 0

writeMulti(st, entry, data, identities, f) ==
    IF _assertCacheUsable \/ _assertEntry(entry, TRUE)
    THEN Caught(Bool(FALSE), <<>>, st)
    ELSE IF identities # None /\ Len(identities[1]) # Len(data)
    THEN Caught(Bool(FALSE), <<>>, st)
    ELSE LET ids == IF identities = None THEN data ELSE identities[1]
             ks == BuildKeys(entries, entry, ids)
             caches == Caches(KeysOf(ks),
                              [i \in 1..Len(data) |-> serialize(data[i])])
             t == TtlOf(entry)
         IN  IF ~AllBuilt(ks) THEN Caught(Bool(FALSE), <<>>, st)
             ELSE ReturnCall(st, f, Bool(TRUE), Bool(FALSE), Bool(FALSE),
                             SetMultiCall(entry, t),
                             DriverSetMulti(st, caches, t))

markMultiNeverExist(st, entry, identities, f) ==
    IF _assertCacheUsable \/ _assertEntry(entry, TRUE)
    THEN Caught(Bool(FALSE), <<>>, st)
    ELSE LET ks == BuildKeys(entries, entry, identities)
             caches == Caches(KeysOf(ks),
                              [i \in 1..Len(identities) |-> Undefined])
             t == NeTtlOf(entry)
         IN  IF ~AllBuilt(ks) THEN Caught(Bool(FALSE), <<>>, st)
             ELSE ReturnCall(st, f, Bool(TRUE), Bool(FALSE), Bool(FALSE),
                             SetMultiCall(entry, t),
                             DriverSetMulti(st, caches, t))

removeMulti(st, entry, identities, f) ==
    IF _assertCacheUsable \/ _assertEntry(entry, TRUE)
    THEN Caught(Number(0), <<>>, st)
    ELSE LET ks == BuildKeys(entries, entry, identities)
             r == DriverRemoveMulti(st, KeysOf(ks))
         IN  IF ~AllBuilt(ks) THEN Caught(Number(0), <<>>, st)
             ELSE ReturnCall(st, f, Number(r.n), Number(0), Number(0),
                             Call("removeMulti"), r.st)

(* A set call of a fan-out: the key (or the exception of buildKey), the    *)
(* body and the ttl.                                                       *)
SetReq(e, data, body, t) == [k |-> buildKey(e, data), body |-> body, t |-> t]

(* The loop that issues the set calls reqs[i..] and the await of           *)
(* Promise.all on their promises.  fs[i] is what the driver does with call *)
(* i.  A call that throws ends the loop; a promise that rejects, or        *)
(* resolves to false, does not.                                            *)
RECURSIVE FanOut(_, _, _, _, _, _)
FanOut(reqs, fs, i, st, calls, rejected) ==
    IF i > Len(reqs)
    THEN IF rejected THEN Caught(Bool(FALSE), calls, st)
         ELSE Returned(Bool(TRUE), calls, st)
    ELSE IF ~reqs[i].k.ok THEN Caught(Bool(FALSE), calls, st)
    ELSE LET c == Append(calls, CallT("set", reqs[i].t))
         IN  IF fs[i] = "throw" THEN Caught(Bool(FALSE), c, st)
             ELSE FanOut(reqs, fs, i + 1,
                         IF fs[i] = "ok"
                         THEN DriverSet(st, reqs[i].k.key, reqs[i].body,
                                        reqs[i].t)
                         ELSE st,
                         c, rejected \/ fs[i] = "reject")

put(st, data, ttl, fs) ==
    IF _assertCacheUsable THEN Caught(Bool(FALSE), <<>>, st)
    ELSE LET cacheBody == serialize(data)
             reqs == [i \in 1..Len(entries) |->
                         SetReq(entries[i], data, cacheBody,
                                IF ttl = None THEN entries[i].ttl
                                ELSE ttl[1])]
         IN  FanOut(reqs, fs, 1, st, <<>>, FALSE)

(* The set calls of putMulti, item by item and entry by entry. *)
PutMultiReqs(data) ==
    LET n == Len(entries)
    IN  [c \in 1..(Len(data) * n) |->
            LET item == data[((c - 1) \div n) + 1]
                e == entries[((c - 1) % n) + 1]
            IN  SetReq(e, item, serialize(item), e.ttl)]

putMulti(st, data, fs) ==
    IF _assertCacheUsable THEN Caught(Bool(FALSE), <<>>, st)
    ELSE FanOut(PutMultiReqs(data), fs, 1, st, <<>>, FALSE)

-----------------------------------------------------------------------------
(* Attachments and flush. *)

readAttachment(st, name, identity, f, uf) ==
    IF _assertCacheUsable \/ _assertAttachment(name, TRUE)
    THEN Caught(Null, <<>>, st)
    ELSE LET k == KeyOf(attachments, name, identity)
         IN  IF ~k.ok THEN Caught(Null, <<>>, st)
             ELSE IF f # "ok" THEN Caught(Null, <<Call("get")>>, st)
             ELSE ReadResult(st, DriverGet(st, k.key), uf, <<Call("get")>>)

writeAttachment(st, name, identity, data, f) ==
    IF _assertCacheUsable \/ _assertAttachment(name, TRUE)
    THEN Caught(Bool(FALSE), <<>>, st)
    ELSE LET k == KeyOf(attachments, name, identity)
         IN  IF ~k.ok THEN Caught(Bool(FALSE), <<>>, st)
             ELSE LET t == Get(attachments, name).ttl
                  IN  ReturnCall(st, f, Bool(TRUE), Bool(FALSE), Bool(FALSE),
                                 CallT("set", t),
                                 DriverSet(st, k.key, serialize(data), t))

removeAttachment(st, name, identity, f) ==
    IF _assertCacheUsable \/ _assertAttachment(name, TRUE)
    THEN Caught(Bool(FALSE), <<>>, st)
    ELSE LET k == KeyOf(attachments, name, identity)
         IN  IF ~k.ok THEN Caught(Bool(FALSE), <<>>, st)
             ELSE ReturnCall(st, f, Bool(TRUE), Bool(FALSE), Bool(FALSE),
                             Call("remove"), DriverRemove(st, k.key))

(* The keys a loop over a whole registry builds from data. *)
AllKeys(reg, data) == [i \in 1..Len(reg) |-> buildKey(reg[i], data)]

(* await this._driver.removeMulti(keys); return true *)
RemoveAll(st, ks, f) ==
    IF ~AllBuilt(ks) THEN Caught(Bool(FALSE), <<>>, st)
    ELSE IF f # "ok" THEN Caught(Bool(FALSE), <<Call("removeMulti")>>, st)
    ELSE Returned(Bool(TRUE), <<Call("removeMulti")>>,
                  DriverRemoveMulti(st, KeysOf(ks)).st)

removeAllAttachments(st, data, f) ==
    IF _assertCacheUsable THEN Caught(Bool(FALSE), <<>>, st)
    ELSE RemoveAll(st, AllKeys(attachments, data), f)

(* flush that never collects the attachment keys. *)
flush_EntriesOnly(st, data, includeAttachment, f) ==
    IF _assertCacheUsable THEN Caught(Bool(FALSE), <<>>, st)
    ELSE RemoveAll(st, AllKeys(entries, data), f)

flush(st, data, includeAttachment, f) ==
    IF _assertCacheUsable THEN Caught(Bool(FALSE), <<>>, st)
    ELSE RemoveAll(st, AllKeys(entries, data)
                   \o (IF includeAttachment THEN AllKeys(attachments, data)
                       ELSE <<>>),
                   f)


-----------------------------------------------------------------------------
(* The arguments the model hands to the operations. *)

(* Entry and attachment names: the sample's, a name nobody registers and   *)
(* an inherited one.                                                       *)
EntryNames == {"primary", "email"}
AttachmentNames == {"roles"}
AnyEntryName == EntryNames \cup {"nope"} \cup ProtoNames
AnyAttachmentName == AttachmentNames \cup {"nope"} \cup ProtoNames

(* The schema the sample registers an entry with. *)
SchemaOf(name) ==
    IF name = "primary" THEN <<Field("id", "number")>>
    ELSE <<Field("email", "string")>>

(* Batches: every sequence of at most MaxBatch elements of S. *)
Batches(S) == UNION {[1..n -> S] : n \in 0..MaxBatch}

(* What a driver call does: it works, it resolves to false, it throws, its *)
(* promise rejects.                                                        *)
Works == {"ok"}
Faults == {"ok", "throw", "reject"}
SetFaults == Faults \cup {"false"}

(* What the n calls of a fan-out do: all work, one of them does f, or all   *)
(* of them do.                                                             *)
FanFaults(n, kinds) ==
    {[i \in 1..n |-> IF i \in B THEN f ELSE "ok"] :
        B \in {{}, 1..n} \cup {{b} : b \in 1..n}, f \in kinds}

-----------------------------------------------------------------------------
(* The state machine. *)

EmptyStore == [k \in {} |-> Null]

(* The messages of the errors the zone throws. *)
EntryMissing(name) ==
    "Entry \"" \o name \o "\" doesn't exist in resource \"" \o ZoneName
        \o "\"."

EntryExists(name) ==
    "Entry \"" \o name \o "\" already exists in resource \"" \o ZoneName
        \o "\"."

AttachmentMissing(name) ==
    "Attachment \"" \o name \o "\" doesn't exist in resource \"" \o ZoneName
        \o "\"."

(* _assertAttachment(name, false) throws with the wording of _assertEntry. *)
AttachmentExists(name) == EntryExists(name)

(* JSON.parse(JSON.stringify(keys)) for keys that are no plain data. *)
SyntaxError == "SyntaxError"

NoOp ==
    [op |-> "new", raised |-> FALSE, emits |-> 0, changed |-> FALSE,
     error |-> ""]

(* A put call that was not made yet. *)
NoPut ==
    [state |-> "idle", data |-> Null, reqs |-> <<>>, pending |-> {},
     failed |-> FALSE, ret |-> Null]

(* new Factory(): both tables empty, no call made yet. *)
NewFactory ==
    [drivers |-> <<>>, zones |-> <<>>, op |-> "new", raised |-> FALSE,
     error |-> "", ret |-> Null]

Init ==
    /\ entries = <<>>
    /\ attachments = <<>>
    /\ store = EmptyStore
    /\ usable = TRUE
    /\ now = 0
    /\ handlers = 0
    /\ last = NoOp
    /\ factory = NewFactory
    /\ puts = [p \in 1..MaxPuts |-> NoPut]

(* A data operation as it would complete if a failed one dropped the      *)
(* attachments registered.                                                 *)
Done_DropsOnFailure(op, out) ==
    /\ store' = out.st
    /\ last' = [op |-> op, raised |-> out.raised, emits |-> out.emits,
                changed |-> out.st # store, error |-> ""]
    /\ attachments' = IF out.emits > 0 THEN <<>> ELSE attachments
    /\ UNCHANGED <<entries, usable, now, handlers, factory, puts>>

(* A data operation completed with outcome out. *)
Done(op, out) ==
    /\ store' = out.st
    /\ last' = [op |-> op, raised |-> out.raised, emits |-> out.emits,
                changed |-> out.st # store, error |-> ""]
    /\ UNCHANGED <<entries, attachments, usable, now, handlers, factory, puts>>

(* Anything else completed: a registration, a subscription, the clock. *)
Other(op, raised) == last' = [NoOp EXCEPT !.op = op, !.raised = raised]

(* A synchronous call threw error to its caller. *)
Threw(op, error) ==
    last' = [NoOp EXCEPT !.op = op, !.raised = TRUE, !.error = error]

(* registerEntry(name, keys, ttl, neTTL): synchronous, it throws to the    *)
(* caller, the assertion's error or the one of the Entry constructor.      *)
registerEntry(name, keys, ttl, neTTL) ==
    /\ IF _assertEntry(name, FALSE) \/ CompileThrows(keys)
       THEN /\ Threw("registerEntry",
                     IF _assertEntry(name, FALSE) THEN EntryExists(name)
                     ELSE SyntaxError)
            /\ UNCHANGED entries
       ELSE /\ entries' = Append(entries, Entry(name, keys, ttl, neTTL, ""))
            /\ Other("registerEntry", FALSE)
    /\ UNCHANGED <<attachments, store, usable, now, handlers, factory, puts>>

(* registerAttachment(name, entry, serializer, unserializer, ttl, neTTL).  *)
(* For an inherited entry name both assertions pass and the Entry          *)
(* constructor throws on JSON.parse(JSON.stringify(keys)), keys being a    *)
(* function.                                                               *)
registerAttachment(name, entry, ttl, neTTL) ==
    /\ IF \/ _assertEntry(entry, TRUE)
          \/ _assertAttachment(name, FALSE)
          \/ ~IsOwn(entries, entry)
       THEN /\ Threw("registerAttachment",
                     IF _assertEntry(entry, TRUE) THEN EntryMissing(entry)
                     ELSE IF _assertAttachment(name, FALSE)
                     THEN AttachmentExists(name)
                     ELSE SyntaxError)
            /\ UNCHANGED attachments
       ELSE /\ attachments' =
                  Append(attachments,
                         Attachment(name, Get(entries, entry).keys, ttl, neTTL))
            /\ Other("registerAttachment", FALSE)
    /\ UNCHANGED <<entries, store, usable, now, handlers, factory, puts>>

(* zone.on("error", handler) *)
OnError ==
    /\ handlers < MaxHandlers
    /\ handlers' = handlers + 1
    /\ Other("on", FALSE)
    /\ UNCHANGED <<entries, attachments, store, usable, now, factory, puts>>

(* zone.removeListener("error", handler) *)
RemoveErrorHandler ==
    /\ handlers > 0
    /\ handlers' = handlers - 1
    /\ Other("removeListener", FALSE)
    /\ UNCHANGED <<entries, attachments, store, usable, now, factory, puts>>

(* LocalDriver.setUnusable() *)
SetUnusable ==
    /\ usable
    /\ usable' = FALSE
    /\ Other("setUnusable", FALSE)
    /\ UNCHANGED <<entries, attachments, store, now, handlers, factory, puts>>

(* The operations as actions, over the names, the resource objects and the *)
(* driver behaviours a specification hands them.                           *)

RegisterEntry(names) ==
    \E name \in names :
        registerEntry(name, SchemaOf(name), DEFAULT_TTL,
                      DEFAULT_NEVER_EXISTED_TTL)

RegisterAttachment(names, parents) ==
    \E name \in names, entry \in parents :
        registerAttachment(name, entry, DEFAULT_TTL, DEFAULT_NEVER_EXISTED_TTL)

Read(names, users, faults, ufs) ==
    \E e \in names, i \in users, f \in faults, uf \in ufs :
        Done("read", read(store, e, i, f, uf))

ReadMulti(names, users, faults, ufs) ==
    \E e \in names, ids \in Batches(users), f \in faults, uf \in ufs :
        Done("readMulti", readMulti(store, e, ids, f, uf))

Write(names, users, ttls, faults) ==
    \E e \in names, d \in users, given \in BOOLEAN, ttl \in ttls, f \in faults :
        Done("write",
             write(store, e, d, IF given THEN Some(d) ELSE None, ttl, f))

WriteMulti(names, users, others, faults) ==
    \E e \in names, ds \in Batches(users), f \in faults :
        \E ids \in {None, Some(ds)} \cup {Some(b) : b \in others} :
            Done("writeMulti", writeMulti(store, e, ds, ids, f))

Put(users, ttls, kinds) ==
    \E d \in users, ttl \in ttls, fs \in FanFaults(Len(entries), kinds) :
        Done("put", put(store, d, ttl, fs))

PutMulti(users, kinds) ==
    \E ds \in Batches(users) :
        \E fs \in FanFaults(Len(ds) * Len(entries), kinds) :
            Done("putMulti", putMulti(store, ds, fs))

MarkNeverExist(names, users, faults) ==
    \E e \in names, i \in users, f \in faults :
        Done("markNeverExist", markNeverExist(store, e, i, f))

MarkMultiNeverExist(names, users, faults) ==
    \E e \in names, ids \in Batches(users), f \in faults :
        Done("markMultiNeverExist", markMultiNeverExist(store, e, ids, f))

Exists(names, users, faults) ==
    \E e \in names, i \in users, f \in faults :
        Done("exists", exists(store, e, i, f))

Remove(names, users, faults) ==
    \E e \in names, i \in users, f \in faults :
        Done("remove", remove(store, e, i, f))

RemoveMulti(names, users, faults) ==
    \E e \in names, ids \in Batches(users), f \in faults :
        Done("removeMulti", removeMulti(store, e, ids, f))

ReadAttachment(names, users, faults, ufs) ==
    \E a \in names, i \in users, f \in faults, uf \in ufs :
        Done("readAttachment", readAttachment(store, a, i, f, uf))

WriteAttachment(names, users, faults) ==
    \E a \in names, i \in users, d \in AttachData, f \in faults :
        Done("writeAttachment", writeAttachment(store, a, i, d, f))

RemoveAttachment(names, users, faults) ==
    \E a \in names, i \in users, f \in faults :
        Done("removeAttachment", removeAttachment(store, a, i, f))

RemoveAllAttachments(users, faults) ==
    \E d \in users, f \in faults :
        Done("removeAllAttachments", removeAllAttachments(store, d, f))

Flush(users, faults) ==
    \E d \in users, incl \in BOOLEAN, f \in faults :
        Done(IF incl THEN "flushAll" ELSE "flush", flush(store, d, incl, f))

(* The zone against the sample driver, which never fails a call: callers   *)
(* register the sample's entries and attachment and use every operation on *)
(* the sample's names.                                                     *)
Next ==
    \/ RegisterEntry(EntryNames)
    \/ RegisterAttachment(AttachmentNames, {"primary", "nope"})
    \/ Read(EntryNames, Users, Works, {FALSE})
    \/ ReadMulti(EntryNames, Users, Works, {0})
    \/ Write(EntryNames, Users, {None}, Works)
    \/ WriteMulti(EntryNames, Users, {}, Works)
    \/ Put(Users, {None}, Works)
    \/ PutMulti(Users, Works)
    \/ MarkNeverExist(EntryNames, Users, Works)
    \/ MarkMultiNeverExist(EntryNames, Users, Works)
    \/ Exists(EntryNames, Users, Works)
    \/ Remove(EntryNames, Users, Works)
    \/ RemoveMulti(EntryNames, Users, Works)
    \/ ReadAttachment(AttachmentNames, Users, Works, {FALSE})
    \/ WriteAttachment(AttachmentNames, Users, Works)
    \/ RemoveAttachment(AttachmentNames, Users, Works)
    \/ RemoveAllAttachments(Users, Works)
    \/ Flush(Users, Works)

Spec == Init /\ [][Next]_vars

(* The zone against a driver that may fail any call or report itself       *)
(* unusable, with callers that may pass any name and may not listen to     *)
(* "error".                                                                *)
OneUser == {User(1)}

NextF ==
    \/ RegisterEntry(EntryNames \cup ProtoNames)
    \/ RegisterAttachment(AttachmentNames, {"primary", "nope"} \cup ProtoNames)
    \/ OnError
    \/ RemoveErrorHandler
    \/ SetUnusable
    \/ Read(AnyEntryName, OneUser, Faults, BOOLEAN)
    \/ ReadMulti(AnyEntryName, OneUser, Faults, {0, 1})
    \/ Write(AnyEntryName, OneUser, {None}, SetFaults)
    \/ WriteMulti(AnyEntryName, OneUser, {<<>>}, SetFaults)
    \/ Put(OneUser, {None}, SetFaults)
    \/ PutMulti(OneUser, SetFaults)
    \/ MarkNeverExist(AnyEntryName, OneUser, SetFaults)
    \/ MarkMultiNeverExist(AnyEntryName, OneUser, SetFaults)
    \/ Exists(AnyEntryName, OneUser, Faults)
    \/ Remove(AnyEntryName, OneUser, SetFaults)
    \/ RemoveMulti(AnyEntryName, OneUser, Faults)
    \/ ReadAttachment(AnyAttachmentName, OneUser, Faults, BOOLEAN)
    \/ WriteAttachment(AnyAttachmentName, OneUser, SetFaults)
    \/ RemoveAttachment(AnyAttachmentName, OneUser, SetFaults)
    \/ RemoveAllAttachments(OneUser, Faults)
    \/ Flush(OneUser, Faults)

SpecF == Init /\ [][NextF]_vars

(* The zone over time: one entry, whose records expire as the clock the    *)
(* driver reads advances.                                                  *)
Tick ==
    /\ now < MaxTicks * TickSeconds * MsPerSecond
    /\ now' = now + TickSeconds * MsPerSecond
    /\ Other("tick", FALSE)
    /\ UNCHANGED <<entries, attachments, store, usable, handlers, factory, puts>>

NextT ==
    \/ RegisterEntry({"primary"})
    \/ Read({"primary"}, Users, Works, {FALSE})
    \/ Write({"primary"}, Users, {None, Some(TickSeconds)}, Works)
    \/ MarkNeverExist({"primary"}, Users, Works)
    \/ Remove({"primary"}, Users, Works)
    \/ RemoveMulti({"primary"}, Users, Works)
    \/ Exists({"primary"}, Users, Works)
    \/ Tick

SpecT == Init /\ [][NextT]_vars

(* The zone with entries of any name and schema.  registerEntry takes any  *)
(* string as a name and any field names as a schema: a zone of logins,     *)
(* keyed by e-mail address and name, with an entry called "attach", with   *)
(* an entry whose name holds the delimiter and with a field whose name is  *)
(* an array index.                                                         *)
Text(f) == Field(f, "string")

LoginSchema == <<Text("email"), Text("name")>>

Shape(keys, ttl, neTTL) == [keys |-> keys, ttl |-> ttl, neTTL |-> neTTL]

NamesR == {"login", "attach", "login:email"}

ShapesR(name) ==
    CASE name = "login" ->
             {Shape(LoginSchema, DEFAULT_TTL, DEFAULT_NEVER_EXISTED_TTL),
              Shape(LoginSchema, TickSeconds, TickSeconds)}
      [] name = "attach" ->
             {Shape(<<Text("roles")>> \o LoginSchema, DEFAULT_TTL,
                    DEFAULT_NEVER_EXISTED_TTL)}
      [] OTHER ->
             {Shape(<<Text("x")>>, DEFAULT_TTL, DEFAULT_NEVER_EXISTED_TTL),
              Shape(<<Text("x"), Text("1")>>, DEFAULT_TTL,
                    DEFAULT_NEVER_EXISTED_TTL)}

(* The parent entries registerAttachment is given. *)
ParentsR == {"login", "nope"} \cup ProtoNames

(* The ttl arguments of write: none, an explicit 0, a number of seconds. *)
TtlsR == {None, Some(0), Some(TickSeconds)}

RegisterShape(names) ==
    \E name \in names :
        \E shape \in ShapesR(name) :
            registerEntry(name, shape.keys, shape.ttl, shape.neTTL)

NextR ==
    \/ RegisterShape(NamesR)
    \/ RegisterAttachment(AttachmentNames, ParentsR)
    \/ Write({"login"}, OneUser, TtlsR, Works)
    \/ MarkNeverExist(NamesR, DataR, Works)
    \/ MarkMultiNeverExist({"login"}, DataR, Works)
    \/ WriteAttachment(AttachmentNames, DataR, Works)
    \/ ReadAttachment(AttachmentNames, DataR, Works, {FALSE})
    \/ RemoveAllAttachments(DataR, Works)
    \/ Flush(DataR, Works)

SpecR == Init /\ [][NextR]_vars

-----------------------------------------------------------------------------
(* The factory: a table of drivers by name and a table of zones by name.   *)
(* Both are object literals, tested with this._drivers[name] and           *)
(* this._zones[name]: an inherited name reads as a truthy value.           *)

DriverNames == {"local", "redis"}
(* The objects given as drivers: new LocalDriver(), twice. *)
LocalDriver(n) == [t |-> "driver", n |-> n]
DriverObjects == {LocalDriver(1), LocalDriver(2)}
ZoneNames == {"users", "posts"}
AnyDriverName == DriverNames \cup {"nope"} \cup ProtoNames
AnyZoneName == ZoneNames \cup ProtoNames

(* Object.prototype.constructor, what table["constructor"] reads as. *)
Inherited == [t |-> "function"]

(* table[name], for a name the table has or inherits *)
Entry_Of(table, name) ==
    IF IsOwn(table, name) THEN Get(table, name) ELSE Inherited

DriverExistsError(name) == "Cache driver \"" \o name \o "\" already exists."
DriverMissing(name) == "Cache driver \"" \o name \o "\" doesn't exist."
ZoneExists(name) == "Resource zone \"" \o name \o "\" already exists."
ZoneMissing(name) == "Resource zone \"" \o name \o "\" doesn't exist."

(* A call of the factory threw error, or returned ret with the tables as   *)
(* given.                                                                  *)
FactoryThrew(op, error) ==
    factory' = [factory EXCEPT !.op = op, !.raised = TRUE, !.error = error,
                               !.ret = Null]

FactoryReturned(op, drivers, zones, ret) ==
    factory' = [drivers |-> drivers, zones |-> zones, op |-> op,
                raised |-> FALSE, error |-> "", ret |-> ret]

(* Factory.addDriver(name, driver) *)
addDriver(name, driver) ==
    /\ IF Has(factory.drivers, name)
       THEN FactoryThrew("addDriver", DriverExistsError(name))
       ELSE FactoryReturned("addDriver",
                            Append(factory.drivers,
                                   [name |-> name, driver |-> driver]),
                            factory.zones, Null)
    /\ UNCHANGED <<entries, attachments, store, usable, now, handlers, last,
                   puts>>

(* createZone(name, driver, ...) of Zone.ts: a new ResourceZone over the   *)
(* driver object it is given; nth tells the objects apart.                 *)
NewZone(name, driver, nth) == [name |-> name, driver |-> driver, nth |-> nth]

(* Factory.createZone(name, driver, serializer, unserializer) *)
createZone(name, driver) ==
    /\ IF Has(factory.zones, name)
       THEN FactoryThrew("createZone", ZoneExists(name))
       ELSE IF ~Has(factory.drivers, driver)
       THEN FactoryThrew("createZone", DriverMissing(driver))
       ELSE LET bound == IF IsOwn(factory.drivers, driver)
                         THEN Get(factory.drivers, driver).driver
                         ELSE Inherited
                zone == NewZone(name, bound, Len(factory.zones) + 1)
            IN  FactoryReturned("createZone", factory.drivers,
                                Append(factory.zones, zone), zone)
    /\ UNCHANGED <<entries, attachments, store, usable, now, handlers, last,
                   puts>>

(* Factory.getZone(name) *)
getZone(name) ==
    /\ IF ~Has(factory.zones, name)
       THEN FactoryThrew("getZone", ZoneMissing(name))
       ELSE FactoryReturned("getZone", factory.drivers, factory.zones,
                            Entry_Of(factory.zones, name))
    /\ UNCHANGED <<entries, attachments, store, usable, now, handlers, last,
                   puts>>

AddDriver == \E name \in AnyDriverName, d \in DriverObjects : addDriver(name, d)

CreateZone ==
    \E name \in AnyZoneName, driver \in AnyDriverName : createZone(name, driver)

GetZone == \E name \in AnyZoneName \cup {"nope"} : getZone(name)

NextH == AddDriver \/ CreateZone \/ GetZone

SpecH == Init /\ [][NextH]_vars

-----------------------------------------------------------------------------
(* put against a driver whose set calls take time: the loop of put issues  *)
(* every set call, then put awaits Promise.all of their promises while the *)
(* calls complete, or fail, in any order.                                  *)

(* The loop of put(data): one set call per registered entry, all in        *)
(* flight when the loop is left.  An unusable driver ends the call in the  *)
(* catch block before any set call.                                        *)
PutStart(p, data) ==
    /\ puts[p].state = "idle"
    /\ Len(entries) > 0
    /\ puts' =
           [puts EXCEPT ![p] =
               IF _assertCacheUsable
               THEN [NoPut EXCEPT !.state = "awaiting", !.data = data,
                                  !.failed = TRUE]
               ELSE [state |-> "awaiting", data |-> data,
                     reqs |-> [i \in 1..Len(entries) |->
                                  SetReq(entries[i], data, serialize(data),
                                         entries[i].ttl)],
                     pending |-> 1..Len(entries), failed |-> FALSE,
                     ret |-> Null]]
    /\ UNCHANGED <<entries, attachments, store, usable, now, handlers, last,
                   factory>>

(* A set call in flight completes: LocalDriver.set stores the item and its *)
(* promise resolves.                                                       *)
SetLands(p, i) ==
    /\ i \in puts[p].pending
    /\ store' = DriverSet(store, puts[p].reqs[i].k.key, puts[p].reqs[i].body,
                          puts[p].reqs[i].t)
    /\ puts' = [puts EXCEPT ![p].pending = @ \ {i}]
    /\ UNCHANGED <<entries, attachments, usable, now, handlers, last, factory>>

(* A set call in flight fails: its promise rejects, nothing is stored. *)
SetRejects(p, i) ==
    /\ i \in puts[p].pending
    /\ puts' = [puts EXCEPT ![p].pending = @ \ {i}, ![p].failed = TRUE]
    /\ UNCHANGED <<entries, attachments, store, usable, now, handlers, last,
                   factory>>

(* await Promise.all(prs) is over: every promise resolved and put returns  *)
(* true, or one promise rejected and the catch block runs, whatever the    *)
(* other promises do: emit("error"), which throws when nobody listens,     *)
(* then return false.                                                      *)
PutReturns(p) ==
    /\ puts[p].state = "awaiting"
    /\ puts[p].failed \/ puts[p].pending = {}
    /\ puts' =
           [puts EXCEPT ![p].state = "done",
                        ![p].ret = IF ~puts[p].failed THEN Bool(TRUE)
                                   ELSE IF handlers = 0 THEN Rejected
                                   ELSE Bool(FALSE)]
    /\ UNCHANGED <<entries, attachments, store, usable, now, handlers, last,
                   factory>>

(* Registration is the setup phase: it is over when the first put is made. *)
Setup == \A p \in 1..MaxPuts : puts[p].state = "idle"

NextC ==
    \/ Setup /\ RegisterEntry(EntryNames)
    \/ OnError
    \/ \E p \in 1..MaxPuts, d \in Versions : PutStart(p, d)
    \/ \E p \in 1..MaxPuts, i \in 1..Len(entries) : SetLands(p, i)
    \/ \E p \in 1..MaxPuts, i \in 1..Len(entries) : SetRejects(p, i)
    \/ \E p \in 1..MaxPuts : PutReturns(p)

SpecC == Init /\ [][NextC]_vars

-----------------------------------------------------------------------------
(* What the callers of a state can get from the zone: the outcome of every *)
(* data operation on every name, for every behaviour of the driver.        *)

Failing == {"throw", "reject"}

(* An operation on name, its documented safe default, whether the driver   *)
(* was told to fail its call, and how the operation ended.                 *)
Outcome(op, name, dflt, failed, out) ==
    [op |-> op, name |-> name, dflt |-> dflt, failed |-> failed, out |-> out]

AnyFails(fs) == \E i \in DOMAIN fs : fs[i] \in Failing

EntryOutcomes(users) ==
    {Outcome("read", e, Null, f \in Failing, read(store, e, i, f, FALSE)) :
        e \in AnyEntryName, i \in users, f \in Faults}
    \cup
    {Outcome("readMulti", e, Nulls(ids), f \in Failing,
             readMulti(store, e, ids, f, 0)) :
        e \in AnyEntryName, ids \in Batches(users), f \in Faults}
    \cup
    {Outcome("write", e, Bool(FALSE), f \in Failing,
             write(store, e, d, None, None, f)) :
        e \in AnyEntryName, d \in users, f \in SetFaults}
    \cup
    {Outcome("writeMulti", e, Bool(FALSE), f \in Failing,
             writeMulti(store, e, ds, None, f)) :
        e \in AnyEntryName, ds \in Batches(users), f \in SetFaults}
    \cup
    {Outcome("markNeverExist", e, Bool(FALSE), f \in Failing,
             markNeverExist(store, e, i, f)) :
        e \in AnyEntryName, i \in users, f \in SetFaults}
    \cup
    {Outcome("markMultiNeverExist", e, Bool(FALSE), f \in Failing,
             markMultiNeverExist(store, e, ids, f)) :
        e \in AnyEntryName, ids \in Batches(users), f \in SetFaults}
    \cup
    {Outcome("exists", e, Bool(FALSE), f \in Failing,
             exists(store, e, i, f)) :
        e \in AnyEntryName, i \in users, f \in Faults}
    \cup
    {Outcome("remove", e, Bool(FALSE), f \in Failing,
             remove(store, e, i, f)) :
        e \in AnyEntryName, i \in users, f \in SetFaults}
    \cup
    {Outcome("removeMulti", e, Number(0), f \in Failing,
             removeMulti(store, e, ids, f)) :
        e \in AnyEntryName, ids \in Batches(users), f \in Faults}

AttachmentOutcomes(users) ==
    {Outcome("readAttachment", a, Null, f \in Failing,
             readAttachment(store, a, i, f, FALSE)) :
        a \in AnyAttachmentName, i \in users, f \in Faults}
    \cup
    {Outcome("writeAttachment", a, Bool(FALSE), f \in Failing,
             writeAttachment(store, a, i, d, f)) :
        a \in AnyAttachmentName, i \in users, d \in AttachData,
        f \in SetFaults}
    \cup
    {Outcome("removeAttachment", a, Bool(FALSE), f \in Failing,
             removeAttachment(store, a, i, f)) :
        a \in AnyAttachmentName, i \in users, f \in SetFaults}

ZoneOutcomes(users) ==
    {Outcome("put", "", Bool(FALSE), AnyFails(fs), put(store, d, None, fs)) :
        d \in users, fs \in FanFaults(Len(entries), SetFaults)}
    \cup
    UNION {{Outcome("putMulti", "", Bool(FALSE), AnyFails(fs),
                    putMulti(store, ds, fs)) :
               fs \in FanFaults(Len(ds) * Len(entries), SetFaults)} :
           ds \in Batches(users)}
    \cup
    {Outcome("removeAllAttachments", "", Bool(FALSE), f \in Failing,
             removeAllAttachments(store, d, f)) :
        d \in users, f \in Faults}
    \cup
    {Outcome("flush", "", Bool(FALSE), f \in Failing,
             flush(store, d, incl, f)) :
        d \in users, incl \in BOOLEAN, f \in Faults}

Outcomes ==
    EntryOutcomes(OneUser) \cup AttachmentOutcomes(OneUser)
        \cup ZoneOutcomes(OneUser)

(* The operation did not raise, published one error and returned its safe  *)
(* default.                                                                *)
FailSoft(o) == ~o.out.raised /\ o.out.emits = 1 /\ o.out.ret = o.dflt

(* The operation issued no driver call and left the store alone. *)
Untouched(o) == o.out.calls = <<>> /\ o.out.st = store

(* The driver call the operation made failed. *)
CallFailed(o) == o.failed /\ o.out.calls # <<>>

-----------------------------------------------------------------------------
(* C2: with an error handler subscribed, an operation whose driver call    *)
(* fails (it throws, or its promise rejects) does not raise, publishes the *)
(* error exactly once and returns its safe default.                        *)
C2_DriverFailureIntercepted ==
    handlers > 0 => \A o \in Outcomes : CallFailed(o) => FailSoft(o)

(* C3: with an error handler subscribed, an operation on an entry name, or *)
(* an attachment name, that is not registered issues no driver call,       *)
(* leaves the store unchanged, publishes exactly one error and returns its *)
(* safe default.                                                           *)
C3_UnknownNameRejected ==
    handlers > 0 =>
        /\ \A o \in EntryOutcomes(OneUser) :
               ~IsOwn(entries, o.name) => Untouched(o) /\ FailSoft(o)
        /\ \A o \in AttachmentOutcomes(OneUser) :
               ~IsOwn(attachments, o.name) => Untouched(o) /\ FailSoft(o)

(* C4: while the driver reports itself not usable, every data operation    *)
(* returns its safe default, publishes exactly one error, does not raise,  *)
(* issues no driver call and leaves the store unchanged.                   *)
C4_UnusableFailSoft ==
    ~usable => \A o \in Outcomes : FailSoft(o) /\ Untouched(o)

(* C5: no data operation raises to its caller, whatever the number of      *)
(* subscribed error handlers, zero included: an operation that fails       *)
(* resolves to its safe default.                                           *)
C5_NeverRaises ==
    \A o \in Outcomes :
        /\ ~o.out.raised
        /\ o.out.emits > 0 => o.out.ret = o.dflt

(* Whether readMulti has something to fail on: the driver is not usable,   *)
(* the entry is not registered, the driver fails getMulti, or the          *)
(* unserializer throws on a payload of the batch.                          *)
ReadMultiFails(e, ids, f, uf) ==
    \/ ~usable
    \/ ~IsOwn(entries, e)
    \/ f \in Failing
    \/ /\ uf \in 1..Len(ids)
       /\ read(store, e, ids[uf], "ok", FALSE).ret.t = "value"

(* C6: readMulti returns an array as long as identities and in their       *)
(* order, item i being what read returns for identities[i]; when anything  *)
(* in the batch fails, the error is published once and the array holds     *)
(* null throughout.                                                        *)
C6_ReadMultiShape ==
    \A e \in AnyEntryName, ids \in Batches(Users), f \in Faults,
       uf \in 0..MaxBatch :
        LET out == readMulti(store, e, ids, f, uf)
        IN  /\ out.ret.t = "array"
            /\ Len(out.ret.a) = Len(ids)
            /\ IF ReadMultiFails(e, ids, f, uf)
               THEN out.emits = 1 /\ out.ret = Nulls(ids)
               ELSE /\ out.emits = 0
                    /\ \A i \in 1..Len(ids) :
                           out.ret.a[i] =
                               read(store, e, ids[i], "ok", FALSE).ret

(* C7: writeMulti with identities given and as many of them as not of data *)
(* returns false, publishes exactly one error, issues no setMulti and      *)
(* leaves the store unchanged.                                             *)
C7_LengthMismatchRejected ==
    \A e \in AnyEntryName, ds \in Batches(OneUser), ids \in Batches(OneUser),
       f \in SetFaults :
        Len(ids) # Len(ds) =>
            LET out == writeMulti(store, e, ds, Some(ids), f)
            IN  /\ out.ret = Bool(FALSE)
                /\ out.emits = 1
                /\ out.calls = <<>>
                /\ out.st = store

(* C8: put and putMulti return true only when every set call of the        *)
(* fan-out succeeded: none threw, none rejected, none resolved to false.   *)
C8_PutTrueOnlyIfAllWritten ==
    /\ \A d \in OneUser, fs \in FanFaults(Len(entries), SetFaults) :
           put(store, d, None, fs).ret = Bool(TRUE) =>
               \A i \in DOMAIN fs : fs[i] = "ok"
    /\ \A ds \in Batches(OneUser) :
           \A fs \in FanFaults(Len(ds) * Len(entries), SetFaults) :
               putMulti(store, ds, fs).ret = Bool(TRUE) =>
                   \A i \in DOMAIN fs : fs[i] = "ok"

(* What read returns for data under every registered entry, in store st. *)
ReadsAll(st, data) ==
    [i \in 1..Len(entries) |->
        read(st, entries[i].name, data, "ok", FALSE).ret]

(* What readAttachment returns for data under every registered attachment. *)
ReadsAllAttachments(st, data) ==
    [i \in 1..Len(attachments) |->
        readAttachment(st, attachments[i].name, data, "ok", FALSE).ret]

(* The records of st under the attachment keys. *)
AttachmentRecords(st) ==
    LET ks == {buildKey(attachments[i], u).key :
                  i \in 1..Len(attachments), u \in Users}
    IN  [k \in ks \cap DOMAIN st |-> st[k]]

(* C9: after put(data) returned true on a usable driver, read(e, data)     *)
(* returns data for every registered entry e and no attachment record was  *)
(* written; likewise for every item of putMulti(items).                    *)
C9_PutThenRead ==
    usable =>
        /\ \A d \in OneUser, fs \in FanFaults(Len(entries), SetFaults) :
               LET out == put(store, d, None, fs)
               IN  out.ret = Bool(TRUE) =>
                       /\ \A i \in 1..Len(entries) :
                              ReadsAll(out.st, d)[i] = Value(d)
                       /\ AttachmentRecords(out.st) = AttachmentRecords(store)
        /\ \A ds \in Batches(OneUser) :
               \A fs \in FanFaults(Len(ds) * Len(entries), SetFaults) :
                   LET out == putMulti(store, ds, fs)
                   IN  out.ret = Bool(TRUE) =>
                           /\ \A n \in 1..Len(ds), i \in 1..Len(entries) :
                                  ReadsAll(out.st, ds[n])[i] = Value(ds[n])
                           /\ AttachmentRecords(out.st) =
                                  AttachmentRecords(store)

(* Every read of data, under every registered entry and every registered   *)
(* attachment, in store st, returns null.                                  *)
AllUnknown(st, data) ==
    /\ \A i \in 1..Len(entries) : ReadsAll(st, data)[i] = Null
    /\ \A i \in 1..Len(attachments) : ReadsAllAttachments(st, data)[i] = Null

(* C10, as stated: after flush(data, true) returned, with the driver       *)
(* usable, read(e, data) is null for every registered entry e and          *)
(* readAttachment(a, data) is null for every registered attachment a.      *)
C10_FlushReturned ==
    usable =>
        \A d \in Users, f \in Faults :
            LET out == flush(store, d, TRUE, f)
            IN  ~out.raised => AllUnknown(out.st, d)

(* C10, amended: after flush(data, true) returned true, with the driver    *)
(* usable, read(e, data) is null for every registered entry e and          *)
(* readAttachment(a, data) is null for every registered attachment a.      *)
C10_FlushCompleteness ==
    usable =>
        \A d \in Users, f \in Faults :
            LET out == flush(store, d, TRUE, f)
            IN  out.ret = Bool(TRUE) => AllUnknown(out.st, d)

(* flush(data, true) returned true and removed a value or a marker, with   *)
(* an entry and an attachment registered.                                  *)
C10_Witness ==
    /\ last.op = "flushAll"
    /\ ~last.raised
    /\ last.emits = 0
    /\ last.changed
    /\ usable
    /\ entries # <<>>
    /\ attachments # <<>>
    /\ AllUnknown(store, User(1))

-----------------------------------------------------------------------------
(* The record the driver holds for identity i of registered entry n, if    *)
(* any: what the last write, markNeverExist or remove on the key left.     *)
KeyAt(n, i) == buildKey(entries[n], i).key

(* What the last operation on a key left there says read returns: null     *)
(* when nothing is held, the marker for the empty body, the value whose    *)
(* text is held otherwise.                                                 *)
Reflected(st, k) ==
    IF k \notin DOMAIN st THEN Null
    ELSE IF st[k].data = "" THEN Undefined
    ELSE Value(JSONParse(st[k].data).v)

(* Right after a write, a markNeverExist or a remove of identity d, read   *)
(* returns the value, the marker, null; and none of the three touches the  *)
(* record of another key.                                                  *)
C1_Effect ==
    \A n \in 1..Len(entries), d \in Users :
        LET e == entries[n].name
            k == KeyAt(n, d)
            others(st) == [x \in DOMAIN st \ {k} |-> st[x]]
            written(ttl) == write(store, e, d, None, ttl, "ok").st
            marked == markNeverExist(store, e, d, "ok").st
            removed == remove(store, e, d, "ok").st
        IN  /\ \A ttl \in {None, Some(TickSeconds)} :
                   /\ read(written(ttl), e, d, "ok", FALSE).ret = Value(d)
                   /\ others(written(ttl)) = others(store)
            /\ read(marked, e, d, "ok", FALSE).ret = Undefined
            /\ others(marked) = others(store)
            /\ read(removed, e, d, "ok", FALSE).ret = Null
            /\ others(removed) = others(store)

(* C1, as stated: after any sequence of write, markNeverExist and remove   *)
(* on a registered entry, read(entry, identity) returns what the last of   *)
(* them on the identity's key left: the written value, the marker          *)
(* (undefined), or null when the key was never written or marked or was    *)
(* last removed.                                                           *)
C1_ReadReflectsLast ==
    /\ C1_Effect
    /\ \A n \in 1..Len(entries), i \in Users :
           read(store, entries[n].name, i, "ok", FALSE).ret =
               Reflected(store, KeyAt(n, i))

(* C1, amended: ... as long as the time to live the record was stored with *)
(* has not elapsed; once it has, read returns null.                        *)
C1_ReadReflectsLastUnexpired ==
    /\ C1_Effect
    /\ \A n \in 1..Len(entries), i \in Users :
           LET k == KeyAt(n, i)
           IN  read(store, entries[n].name, i, "ok", FALSE).ret =
                   IF k \in DOMAIN store /\ isExpired(store[k]) THEN Null
                   ELSE Reflected(store, k)

(* A read completed some time after a value was written for one identity   *)
(* and another was marked, neither record being expired yet.               *)
C1_Witness ==
    /\ last.op = "read"
    /\ ~last.raised
    /\ now > 0
    /\ \E n \in 1..Len(entries) :
           \E i, j \in Users :
               /\ KeyAt(n, i) \in DOMAIN store
               /\ KeyAt(n, j) \in DOMAIN store
               /\ store[KeyAt(n, i)].data = ""
               /\ store[KeyAt(n, j)].data # ""
               /\ store[KeyAt(n, i)].expiredAt > 0
               /\ ~isExpired(store[KeyAt(n, i)])
               /\ ~isExpired(store[KeyAt(n, j)])

-----------------------------------------------------------------------------
(* Keys and records by identity. *)

(* The identity records the key builders are applied to. *)
IdentsR ==
    DataR \cup {Login("r", "a:name:b", "c"), Login("r", "a", "b:name:c"),
                Login("r", "x", "w"), [x |-> "name:w"]}

(* The values ids gives the declared fields of entry e. *)
DeclaredValues(e, ids) ==
    [n \in 1..Len(e.keys) |->
        IF e.keys[n].f \in DOMAIN ids THEN <<ids[e.keys[n].f]>> ELSE <<>>]

(* The keys every registered entry, or attachment, builds for data. *)
EntryKeys(data) == {buildKey(entries[n], data).key : n \in 1..Len(entries)}

AttachmentKeys(data) ==
    {buildKey(attachments[n], data).key : n \in 1..Len(attachments)}

(* The records st holds under the keys ks. *)
RecordsAt(st, ks) == [k \in ks \cap DOMAIN st |-> st[k]]

(* C11: flush(data) without attachments leaves every attachment record of  *)
(* data's identity, and every entry and attachment record of an identity   *)
(* that differs from data in a declared field, as it was.                  *)
C11_FlushFrame ==
    \A data \in IdentsR :
        LET out == flush(store, data, FALSE, "ok")
            differs(reg, n, d) ==
                DeclaredValues(reg[n], d) # DeclaredValues(reg[n], data)
        IN  /\ RecordsAt(out.st, AttachmentKeys(data))
                   = RecordsAt(store, AttachmentKeys(data))
            /\ \A d \in IdentsR :
                   /\ \A n \in 1..Len(entries) :
                          differs(entries, n, d) =>
                              RecordsAt(out.st, {buildKey(entries[n], d).key})
                                  = RecordsAt(store,
                                              {buildKey(entries[n], d).key})
                   /\ \A n \in 1..Len(attachments) :
                          differs(attachments, n, d) =>
                              RecordsAt(out.st,
                                        {buildKey(attachments[n], d).key})
                                  = RecordsAt(store,
                                              {buildKey(attachments[n], d).key})

(* C12: on a usable driver removeAllAttachments(data) returns true, issues *)
(* exactly one removeMulti call, leaves no record under an attachment key  *)
(* of data and leaves every entry record, those of data included, as it    *)
(* was.                                                                    *)
C12_RemoveAllAttachmentsFrame ==
    usable =>
        \A data \in IdentsR :
            LET out == removeAllAttachments(store, data, "ok")
            IN  /\ out.ret = Bool(TRUE)
                /\ out.calls = <<Call("removeMulti")>>
                /\ AttachmentKeys(data) \cap DOMAIN out.st = {}
                /\ \A d \in IdentsR :
                       RecordsAt(out.st, EntryKeys(d))
                           = RecordsAt(store, EntryKeys(d))

(* C13: the key a registered entry builds for an identity record is never  *)
(* the key a registered attachment builds for an identity record.          *)
C13_AttachmentKeysApart ==
    \A e \in 1..Len(entries), a \in 1..Len(attachments) :
        \A i, j \in IdentsR :
            buildKey(entries[e], i).key # buildKey(attachments[a], j).key

(* C14: under one entry, identity records with equal values in the         *)
(* declared fields build the same key and identity records that differ in  *)
(* the value of a declared field build different keys.                     *)
C14_KeyInjective ==
    \A e \in 1..Len(entries) :
        \A i, j \in IdentsR :
            (DeclaredValues(entries[e], i) = DeclaredValues(entries[e], j))
                <=> (buildKey(entries[e], i).key = buildKey(entries[e], j).key)

(* C15: two distinct registered entries never build the same key, whatever *)
(* the identity records.                                                   *)
C15_EntryKeysApart ==
    \A e1, e2 \in 1..Len(entries) :
        e1 # e2 =>
            \A i1, i2 \in IdentsR :
                buildKey(entries[e1], i1).key # buildKey(entries[e2], i2).key

-----------------------------------------------------------------------------
(* The derivation of a key. *)

(* ids with one more field, which no schema declares. *)
WithExtra(ids) ==
    [f \in DOMAIN ids \cup {"extra"} |->
        IF f = "extra" THEN "e" ELSE ids[f]]

(* The key of registered entry e for ids is a function of the resource     *)
(* name, the entry name, the schema and the declared values: an entry      *)
(* constructed apart with the same name and schema builds it too, a record *)
(* with the same declared values and an undeclared field builds it too,    *)
(* markNeverExist stores under it whatever the cache holds.                *)
KeyDetermined(e, ids) ==
    LET k == buildKey(e, ids)
    IN  /\ k.ok
        /\ \A shape \in ShapesR(e.name) :
               shape.keys = e.keys =>
                   buildKey(Entry(e.name, shape.keys, shape.ttl,
                                  shape.neTTL, ""), ids) = k
        /\ buildKey(e, WithExtra(ids)) = k
        /\ \A j \in IdentsR :
               DeclaredValues(e, j) = DeclaredValues(e, ids) =>
                   buildKey(e, j) = k
        /\ usable =>
               \A st \in {store, EmptyStore} :
                   LET out == markNeverExist(st, e.name, ids, "ok")
                   IN  DOMAIN out.st = DOMAIN st \cup {k.key}

-----------------------------------------------------------------------------
(* The registries. *)

(* At most one entry, and one attachment, of a name. *)
UniqueNames(reg) ==
    \A m, n \in 1..Len(reg) : reg[m].name = reg[n].name => m = n

(* C17: registerEntry of a name that is registered throws the error that   *)
(* the entry exists and leaves the registry as it was, schema, key         *)
(* builder, ttl and neTTL of the registered entry included; there is at    *)
(* most one entry of a name.                                               *)
C17_DuplicateEntryRejected ==
    /\ []UniqueNames(entries)
    /\ [][\A name \in NamesR :
             \A shape \in ShapesR(name) :
                 (/\ IsOwn(entries, name)
                  /\ registerEntry(name, shape.keys, shape.ttl,
                                   shape.neTTL))
                     => /\ last'.raised
                        /\ last'.error = EntryExists(name)
                        /\ entries' = entries
                        /\ \A ids \in IdentsR :
                               buildKey(Get(entries', name), ids)
                                   = buildKey(Get(entries, name), ids)]_vars

(* "login" is registered with a ttl and a later registerEntry("login")     *)
(* was rejected.                                                           *)
C17_Witness ==
    /\ last.op = "registerEntry"
    /\ last.raised
    /\ last.error = EntryExists("login")
    /\ IsOwn(entries, "login")
    /\ Get(entries, "login").ttl = TickSeconds

(* C18: registerAttachment throws the error that the entry is missing when *)
(* the parent entry is not registered, and the error that the attachment   *)
(* exists when the attachment name is registered, the attachment registry  *)
(* staying as it was; when it succeeds the schema of the new attachment is *)
(* the schema of the parent entry.                                         *)
C18_AttachmentRegistration ==
    [][\A name \in AttachmentNames :
          \A entry \in ParentsR :
              registerAttachment(name, entry, DEFAULT_TTL,
                                 DEFAULT_NEVER_EXISTED_TTL)
                  => IF ~IsOwn(entries, entry)
                     THEN /\ last'.raised
                          /\ last'.error = EntryMissing(entry)
                          /\ attachments' = attachments
                     ELSE IF IsOwn(attachments, name)
                     THEN /\ last'.raised
                          /\ last'.error = AttachmentExists(name)
                          /\ attachments' = attachments
                     ELSE /\ ~last'.raised
                          /\ IsOwn(attachments', name)
                          /\ Get(attachments', name).keys
                                 = Get(entries, entry).keys]_vars

-----------------------------------------------------------------------------
(* Time to live. *)

(* The item the driver makes now of a record given ttl seconds. *)
ExpiresWith(item, ttl) == item.expiredAt = Item("", ttl).expiredAt

(* C19: markNeverExist and markMultiNeverExist pass the entry's neTTL to   *)
(* the driver; write passes the ttl of the call when there is one, an      *)
(* explicit 0 included, and the entry's ttl otherwise; a write without ttl *)
(* that follows a write with one passes the entry's ttl again.             *)
C19_TtlSelection ==
    usable =>
        \A n \in 1..Len(entries) :
            LET e == entries[n]
                Chosen(ttl) == IF ttl = None THEN e.ttl ELSE ttl[1]
            IN  /\ \A i \in DataR \cup OneUser :
                       LET k == buildKey(e, i).key
                           mark == markNeverExist(store, e.name, i, "ok")
                           marks == markMultiNeverExist(store, e.name, <<i>>,
                                                        "ok")
                       IN  /\ mark.calls = <<CallT("set", e.neTTL)>>
                           /\ ExpiresWith(mark.st[k], e.neTTL)
                           /\ marks.calls = <<CallT("setMulti", e.neTTL)>>
                           /\ ExpiresWith(marks.st[k], e.neTTL)
                /\ \A d \in OneUser, ttl \in TtlsR :
                       LET k == buildKey(e, d).key
                           out == write(store, e.name, d, None, ttl, "ok")
                           later == write(out.st, e.name, d, None, None, "ok")
                       IN  /\ out.calls = <<CallT("set", Chosen(ttl))>>
                           /\ ExpiresWith(out.st[k], Chosen(ttl))
                           /\ later.calls = <<CallT("set", e.ttl)>>
                           /\ ExpiresWith(later.st[k], e.ttl)

(* "login" is registered with a ttl and holds a record written with an     *)
(* explicit ttl of 0, a write being the last operation.                    *)
C19_Witness ==
    /\ last.op = "write"
    /\ ~last.raised
    /\ IsOwn(entries, "login")
    /\ Get(entries, "login").ttl = TickSeconds
    /\ \E d \in OneUser :
           /\ KeyOf(entries, "login", d).key \in DOMAIN store
           /\ store[KeyOf(entries, "login", d).key].expiredAt = 0

(* The time at which a record stored now with ttl seconds to live has      *)
(* lived them; 0 for a record that lives for ever.                         *)
ElapsesAt(ttl) == IF ttl > 0 THEN now + MsPerSecond * ttl ELSE 0

(* C20: with the sample driver a record written with ttl 0 is returned by  *)
(* read at every later time, and a value written with a ttl above 0 or a   *)
(* marker written with a neTTL above 0 is returned until that time has     *)
(* elapsed and read returns null afterwards.                               *)
C20_Expiry ==
    \A n \in 1..Len(entries), i \in Users :
        LET e == entries[n]
            k == KeyAt(n, i)
            Chosen(ttl) == IF ttl = None THEN e.ttl ELSE ttl[1]
        IN  /\ \A ttl \in {None, Some(0), Some(TickSeconds)} :
                   write(store, e.name, i, None, ttl, "ok").st[k].expiredAt
                       = ElapsesAt(Chosen(ttl))
            /\ markNeverExist(store, e.name, i, "ok").st[k].expiredAt
                   = ElapsesAt(e.neTTL)
            /\ k \in DOMAIN store =>
                   read(store, e.name, i, "ok", FALSE).ret
                       = IF store[k].expiredAt = 0 \/ now <= store[k].expiredAt
                         THEN IF store[k].data = "" THEN Undefined ELSE Value(i)
                         ELSE Null

(* Some time after the writes, a read is done while the zone holds a       *)
(* record that lives for ever and a record whose time has elapsed.         *)
C20_Witness ==
    /\ last.op = "read"
    /\ ~last.raised
    /\ now > 0
    /\ \E n \in 1..Len(entries) :
           \E i, j \in Users :
               /\ KeyAt(n, i) \in DOMAIN store
               /\ KeyAt(n, j) \in DOMAIN store
               /\ store[KeyAt(n, i)].expiredAt = 0
               /\ store[KeyAt(n, j)].expiredAt > 0
               /\ store[KeyAt(n, j)].expiredAt < now

-----------------------------------------------------------------------------
(* Removal. *)

(* C21: on a usable driver remove(entry, identity) returns true whether    *)
(* the key is held or not, a second remove returns the same and leaves the *)
(* store as the first left it, and read of the identity returns null       *)
(* afterwards.                                                             *)
C21_RemoveIdempotent ==
    usable =>
        \A n \in 1..Len(entries), i \in Users :
            LET e == entries[n].name
                once == remove(store, e, i, "ok")
                twice == remove(once.st, e, i, "ok")
            IN  /\ once.ret = Bool(TRUE)
                /\ ~once.raised
                /\ KeyAt(n, i) \notin DOMAIN once.st
                /\ twice.ret = once.ret
                /\ twice.st = once.st
                /\ read(once.st, e, i, "ok", FALSE).ret = Null
                /\ read(twice.st, e, i, "ok", FALSE).ret = Null

(* A remove of a key that was not held has returned, while the zone holds  *)
(* the record of another identity.                                         *)
C21_Witness ==
    /\ last.op = "remove"
    /\ ~last.raised
    /\ ~last.changed
    /\ \E n \in 1..Len(entries) :
           \E i, j \in Users :
               /\ KeyAt(n, i) \notin DOMAIN store
               /\ KeyAt(n, j) \in DOMAIN store

(* The keys of identities that hold a record read would return: one held   *)
(* and not past its time.                                                  *)
ReadableKeys(n, identities) ==
    {k \in {KeyAt(n, identities[x]) : x \in 1..Len(identities)} :
        /\ k \in DOMAIN store
        /\ (store[k].expiredAt = 0 \/ now <= store[k].expiredAt)}

(* C22: removeMulti(entry, identities) returns the number of distinct keys *)
(* of identities that held a readable record, a value or a marker, before  *)
(* the call: a key listed twice counts once, a key whose record is absent  *)
(* or expired does not count.                                              *)
C22_RemoveMultiCount ==
    usable =>
        \A n \in 1..Len(entries), identities \in Batches(Users) :
            removeMulti(store, entries[n].name, identities, "ok").ret
                = Number(Cardinality(ReadableKeys(n, identities)))

-----------------------------------------------------------------------------
(* The three answers. *)

(* C23: exists(entry, id) returns true exactly when read(entry, id)        *)
(* returns a value, undefined exactly when read returns undefined, the key *)
(* being marked, and false exactly when read returns null.                 *)
C23_ExistsAgreesWithRead ==
    usable =>
        \A n \in 1..Len(entries), i \in Users :
            LET r == read(store, entries[n].name, i, "ok", FALSE).ret
                x == exists(store, entries[n].name, i, "ok").ret
            IN  /\ x = Bool(TRUE) <=> r \notin {Null, Undefined}
                /\ x = Undefined <=> r = Undefined
                /\ x = Bool(FALSE) <=> r = Null

-----------------------------------------------------------------------------
(* The factory's tables. *)

(* The tables of the factory. *)
Tables == <<factory.drivers, factory.zones>>

(* C24: addDriver throws when the driver name is taken; createZone throws  *)
(* when the zone name is taken or the driver name is not registered;       *)
(* getZone throws when the zone name is not registered; a call that throws *)
(* leaves both tables as they were; getZone of a created zone returns that *)
(* zone, and a zone once created stays in the table with its driver.       *)
C24_FactoryRegistries ==
    [][/\ \A name \in AnyDriverName, d \in DriverObjects :
              addDriver(name, d) /\ IsOwn(factory.drivers, name)
                  => factory'.raised
       /\ \A name \in AnyZoneName, driver \in AnyDriverName :
              (/\ createZone(name, driver)
               /\ \/ IsOwn(factory.zones, name)
                  \/ ~IsOwn(factory.drivers, driver))
                  => factory'.raised
       /\ \A name \in AnyZoneName \cup {"nope"} :
              getZone(name)
                  => IF IsOwn(factory.zones, name)
                     THEN /\ ~factory'.raised
                          /\ factory'.ret = Get(factory.zones, name)
                     ELSE factory'.raised
       /\ factory'.raised => Tables' = Tables
       /\ \A n \in 1..Len(factory.zones) :
              /\ n <= Len(factory'.zones)
              /\ factory'.zones[n] = factory.zones[n]]_vars

-----------------------------------------------------------------------------
(* Failures of the fan-out operations. *)

(* The most driver calls an operation issues when none is issued twice:    *)
(* one per entry and item for put and putMulti, one otherwise.             *)
MostCalls(o) ==
    CASE o.op = "put" -> Len(entries)
      [] o.op = "putMulti" -> MaxBatch * Len(entries)
      [] OTHER -> 1

(* C25: an operation whose driver call fails publishes the error exactly   *)
(* once, put and putMulti with several failing calls included, and no      *)
(* operation issues a driver call a second time.                           *)
C25_ReportedOnce ==
    \A o \in Outcomes :
        /\ CallFailed(o) => o.out.emits = 1
        /\ o.out.emits <= 1
        /\ Len(o.out.calls) <= MostCalls(o)

(* C26: when a put call has completed, none of the set calls it issued is  *)
(* still in flight.                                                        *)
C26_PutJoins ==
    \A p \in 1..MaxPuts : puts[p].state = "done" => puts[p].pending = {}

(* C27: once two put calls of different data for one identity have both   *)
(* returned true, every set call they issued being completed, read returns *)
(* the same data through every registered entry.                           *)
C27_PutsAgree ==
    \A p, q \in 1..MaxPuts :
        (/\ puts[p].ret = Bool(TRUE)
         /\ puts[q].ret = Bool(TRUE)
         /\ puts[p].data # puts[q].data)
            => \A m, n \in 1..Len(entries) :
                   read(store, entries[m].name, puts[p].data, "ok", FALSE).ret
                       = read(store, entries[n].name, puts[p].data, "ok",
                              FALSE).ret

-----------------------------------------------------------------------------
(* Who writes the registries. *)

Registrations == {"registerEntry", "registerAttachment"}

(* C28: a step that changes the entries or the attachments registered is a *)
(* registerEntry or a registerAttachment that succeeded, and it alters     *)
(* nothing registered before: name, schema, key builder, ttl and neTTL of  *)
(* every entry and attachment stay.  No other operation, successful or     *)
(* failed, writes the registries.                                          *)
C28_RegistriesFrame ==
    [][/\ <<entries, attachments>>' # <<entries, attachments>>
           => last'.op \in Registrations /\ ~last'.raised
       /\ \A n \in 1..Len(entries) :
              /\ n <= Len(entries')
              /\ entries'[n] = entries[n]
       /\ \A n \in 1..Len(attachments) :
              /\ n <= Len(attachments')
              /\ attachments'[n] = attachments[n]]_vars

(* An operation on data has failed, with an error published, on a zone     *)
(* that holds entries, an attachment and records.                          *)
C28_Witness ==
    /\ last.op \notin Registrations \cup {"new", "on", "removeListener", "setUnusable"}
    /\ last.emits = 1
    /\ entries # <<>>
    /\ attachments # <<>>
    /\ store # EmptyStore

-----------------------------------------------------------------------------
(* Found, confirmed absent, unknown. *)

(* C29: a record stored by write or writeAttachment is never read back as  *)
(* confirmed absent, whatever the serializer made of the data, no payload  *)
(* included; read returns the marker only for a key that was marked.       *)
C29_NeverConflated ==
    usable =>
        /\ \A n \in 1..Len(entries), d \in OneUser :
               LET e == entries[n].name
                   out == write(store, e, d, None, None, "ok")
               IN  out.ret = Bool(TRUE) =>
                       read(out.st, e, d, "ok", FALSE).ret # Undefined
        /\ \A n \in 1..Len(attachments), i \in DataR :
               \A d \in AttachData \cup {NoData} :
                   LET a == attachments[n].name
                       out == writeAttachment(store, a, i, d, "ok")
                   IN  out.ret = Bool(TRUE) =>
                           readAttachment(out.st, a, i, "ok", FALSE).ret
                               # Undefined

-----------------------------------------------------------------------------
(* Attachments and entries. *)

(* readAttachment(a, identity) and read(e, identity) on the store st. *)
AttachmentAt(st, a, identity) == readAttachment(st, a, identity, "ok", FALSE).ret

EntryAt(st, e, identity) == read(st, e, identity, "ok", FALSE).ret

(* C30: readAttachment returns what writeAttachment stored and null after *)
(* removeAttachment, no write, markNeverExist, remove or put on an entry   *)
(* for the same identity changes what readAttachment returns, and no       *)
(* attachment operation changes what read returns on an entry.             *)
C30_AttachmentsIsolated ==
    usable =>
        \A n \in 1..Len(attachments), i \in DataR :
            LET a == attachments[n].name
                before == AttachmentAt(store, a, i)
                removed == removeAttachment(store, a, i, "ok")
            IN  /\ \A d \in AttachData :
                       LET out == writeAttachment(store, a, i, d, "ok")
                       IN  out.ret = Bool(TRUE) =>
                               AttachmentAt(out.st, a, i) = Value(d)
                /\ removed.ret = Bool(TRUE) =>
                       AttachmentAt(removed.st, a, i) = Null
                /\ AttachmentAt(put(store, i, None,
                                    [m \in 1..Len(entries) |-> "ok"]).st,
                                a, i) = before
                /\ \A m \in 1..Len(entries) :
                       LET e == entries[m].name
                           held == EntryAt(store, e, i)
                       IN  /\ AttachmentAt(
                                  write(store, e, i, None, None, "ok").st,
                                  a, i) = before
                           /\ AttachmentAt(
                                  markNeverExist(store, e, i, "ok").st,
                                  a, i) = before
                           /\ AttachmentAt(remove(store, e, i, "ok").st,
                                           a, i) = before
                           /\ EntryAt(removed.st, e, i) = held
                           /\ \A d \in AttachData :
                                  EntryAt(writeAttachment(store, a, i, d,
                                                          "ok").st,
                                          e, i) = held

-----------------------------------------------------------------------------
(* Batch reads and single reads. *)

(* The zone with an entry keyed by a buffer, read in batches, one user     *)
(* written and another marked.  The key builder throws on an identity that *)
(* lacks the field, and the unserializer may throw on the payload at one   *)
(* position of the batch.                                                  *)
SchemaM == <<Field("email", "buffer")>>

(* The identities read: the users, and one that holds the id alone. *)
IdentsM == Users \cup {[id |-> 2]}

RegisterM(names) ==
    \E name \in names :
        registerEntry(name, SchemaM, DEFAULT_TTL, DEFAULT_NEVER_EXISTED_TTL)

NextM ==
    \/ RegisterM({"email"})
    \/ OnError
    \/ RemoveErrorHandler
    \/ Write({"email"}, OneUser, {None, Some(TickSeconds)}, Works)
    \/ MarkNeverExist({"email"}, {User(2)}, Works)
    \/ ReadMulti({"email"}, IdentsM, Works, 0..MaxBatch)
    \/ Tick

SpecM == Init /\ [][NextM]_vars

(* Whether the unserializer throws on the payload of identities[j], when   *)
(* it throws on the payload at position uf of the batch: the same key      *)
(* holds the same payload.                                                 *)
ThrowsAt(e, identities, uf, j) ==
    /\ uf # 0
    /\ KeyOf(entries, e, identities[j]) = KeyOf(entries, e, identities[uf])

(* read(e, identities[j]) in the state the batch is read in. *)
Single(e, identities, uf, j) ==
    read(store, e, identities[j], "ok", ThrowsAt(e, identities, uf, j))

(* The j-th element of what readMulti answered. *)
ElementOf(out, j) == IF out.ret = Rejected THEN Rejected ELSE out.ret.a[j]

=============================================================================
